---- MODULE Spec2Model ----
(***************************************************************************)
(* Model of the Redis-backed vector store (src/src/redis_engine.rs,        *)
(* src/src/lib.rs, src/src/redis_vector_store_driver.rs): the vector       *)
(* codec, the collection lifecycle, the record operations and the driver   *)
(* with its search, over a model of the backend's keyspace.                *)
(* Bulk ingestion (src/src/gcs.rs) and concurrent callers keep their      *)
(* tasks and callers in procs.                                             *)
(*                                                                         *)
(* Strings are sequences of tokens; the token ":" is the one character the *)
(* code gives a meaning to (format!("{}:{}"), split(':')).  A float is its *)
(* IEEE-754 bit pattern written as 8 bytes, most significant byte first.   *)
(* A backend command either answers or fails; the fault input of a call    *)
(* names the one command of that call that fails.                          *)
(***************************************************************************)
EXTENDS Integers, Sequences, FiniteSets, TLC

VARIABLES db, last, ops, stored, onlyColl, procs

vars == <<db, last, ops, stored, onlyColl, procs>>

\* --------------------------------------------------------------- bounds

\* Calls per run.
MaxOps == 2

\* The index dimension and the length of the placeholder zero vector
\* (768 in the source, scaled down).
Dim == 2

\* --------------------------------------------------------------- strings

Colon == ":"

\* A byte that is no valid UTF-8.
BadByte == "\\xff"

\* format!("{}:{}", a, b)
Join(a, b) == a \o <<Colon>> \o b

HasPrefix(k, p) == Len(k) >= Len(p) /\ SubSeq(k, 1, Len(p)) = p

HasColon(s) == \E i \in 1..Len(s) : s[i] = Colon

\* str::split(':') collected into a Vec
RECURSIVE Split(_)
Split(s) ==
    IF ~HasColon(s) THEN <<s>>
    ELSE LET i == CHOOSE i \in 1..Len(s) :
                      s[i] = Colon /\ \A j \in 1..(i - 1) : s[j] # Colon
         IN  <<SubSeq(s, 1, i - 1)>> \o Split(SubSeq(s, i + 1, Len(s)))

\* String::from_utf8 succeeds
Utf8Ok(s) == \A i \in 1..Len(s) : s[i] # BadByte

\* Option<&str>
None == <<>>
Some(x) == <<x>>

\* ----------------------------------------------------------------- codec

FloatBytes == 8

Reverse(s) == [i \in 1..Len(s) |-> s[Len(s) + 1 - i]]

\* The bytes written most significant first (byteorder::BigEndian)
WriteF64BigEndian(x) == x

\* LittleEndian::write_f64: the bit pattern, least significant byte first
WriteF64(x) == Reverse(x)

\* The bytes read most significant first (byteorder::BigEndian)
ReadF64BigEndian(chunk) == chunk

\* LittleEndian::read_f64
ReadF64(chunk) == Reverse(chunk)

RECURSIVE SerializeVector(_)
SerializeVector(vector) ==
    IF vector = <<>> THEN <<>>
    ELSE WriteF64(Head(vector)) \o SerializeVector(Tail(vector))

\* bytes.chunks(8): every chunk has 8 bytes but the last, which has the rest
Chunks(bytes) ==
    [i \in 1..((Len(bytes) + FloatBytes - 1) \div FloatBytes) |->
        SubSeq(bytes, FloatBytes * (i - 1) + 1,
               IF FloatBytes * i <= Len(bytes) THEN FloatBytes * i ELSE Len(bytes))]

\* Every chunk decoded, the short one included
DecodeEveryChunk(cs) == [i \in 1..Len(cs) |-> ReadF64(cs[i])]

RECURSIVE DecodeChunks(_)
DecodeChunks(cs) ==
    IF cs = <<>> THEN <<>>
    ELSE (IF Len(Head(cs)) = FloatBytes THEN <<ReadF64(Head(cs))>> ELSE <<>>)
         \o DecodeChunks(Tail(cs))

DeserializeVector(bytes) == DecodeChunks(Chunks(bytes))

F0 == <<0, 0, 0, 0, 0, 0, 0, 0>>
F1 == <<63, 240, 0, 0, 0, 0, 0, 0>>
F01 == <<63, 185, 153, 153, 153, 153, 153, 154>>

\* vec![0.0; 768]
ZeroVector == [i \in 1..Dim |-> F0]

\* ------------------------------------------------------------------ JSON

JStr(s) == [t |-> "str", s |-> s, n |-> 0]
JNum(n) == [t |-> "num", s |-> "", n |-> n]

\* Metadata::new and with_extra: extra is a map from field name to value
Metadata(uri, chunk_id, source, extra) ==
    [uri |-> uri, chunk_id |-> chunk_id, source |-> source, extra |-> extra]

Payload(content, metadata) == [content |-> content, metadata |-> metadata]

PointStruct(id, vector, payload) == [id |-> id, vector |-> vector, payload |-> payload]

NoExtra == [k \in {} |-> JStr("")]

RECURSIVE MapEntries(_)
MapEntries(m) ==
    IF DOMAIN m = {} THEN <<>>
    ELSE LET k == CHOOSE k \in DOMAIN m : TRUE
         IN  <<(<<k, m[k]>>)>> \o MapEntries([j \in DOMAIN m \ {k} |-> m[j]])

\* serde_json::to_string(&payload): the metadata object holds the three
\* named fields and then, flattened beside them, every entry of extra
ToJson(payload) ==
    [content  |-> JStr(payload.content),
     metadata |-> << <<"uri", JStr(payload.metadata.uri)>>,
                     <<"chunk_id", JNum(payload.metadata.chunk_id)>>,
                     <<"source", JStr(payload.metadata.source)>> >>
                  \o MapEntries(payload.metadata.extra)]

Named == {"uri", "chunk_id", "source"}

NamedType(k) == IF k = "chunk_id" THEN "num" ELSE "str"

EntriesOf(es, k) == {i \in 1..Len(es) : es[i][1] = k}

\* serde_json::from_str::<Payload>: a named field that is missing, given
\* twice or of the wrong type is an error; every other entry goes to extra
JsonParses(doc) ==
    /\ doc.content.t = "str"
    /\ \A k \in Named :
          /\ Cardinality(EntriesOf(doc.metadata, k)) = 1
          /\ \A i \in EntriesOf(doc.metadata, k) : doc.metadata[i][2].t = NamedType(k)

FieldOf(es, k) == es[CHOOSE i \in EntriesOf(es, k) : TRUE][2]

FromJson(doc) ==
    LET es == doc.metadata
        others == {es[i][1] : i \in 1..Len(es)} \ Named
    IN  Payload(doc.content.s,
                Metadata(FieldOf(es, "uri").s, FieldOf(es, "chunk_id").n,
                         FieldOf(es, "source").s,
                         [k \in others |-> FieldOf(es, k)]))

\* r#"{"content":"","metadata":{"uri":"","chunk_id":0,"source":""}}"#
EmptyMetadata ==
    [content  |-> JStr(""),
     metadata |-> << <<"uri", JStr("")>>, <<"chunk_id", JNum(0)>>,
                     <<"source", JStr("")>> >>]

\* --------------------------------------------------------------- backend
\* The keyspace of the backend: db.index is the set of collections that
\* have a search index, db.hash maps a key to its hash (field -> bytes),
\* db.doc maps a key to its JSON document.

EmptyDb == [index |-> {}, hash |-> [k \in {} |-> <<>>], doc |-> [k \in {} |-> <<>>]]

EmptyHash == [f \in {} |-> <<>>]

\* FT.INFO answers
FtInfoOk(d, c) == c \in d.index

\* FT.CREATE c ON HASH PREFIX 1 "c:" ...
FtCreate(d, c) == [d EXCEPT !.index = @ \cup {c}]

\* FT.DROPINDEX c DD: the index and every hash under its prefix
FtDropIndexDD(d, c) ==
    LET keep == {k \in DOMAIN d.hash : ~HasPrefix(k, c \o <<Colon>>)}
    IN  [d EXCEPT !.index = @ \ {c}, !.hash = [k \in keep |-> d.hash[k]]]

\* HGETALL: the hash, empty when the key is absent
HGetAll(d, key) == IF key \in DOMAIN d.hash THEN d.hash[key] ELSE EmptyHash

\* HSET key f1 v1 f2 v2: the given fields are set, the others kept
HSetMultiple(d, key, fields) ==
    LET old == HGetAll(d, key)
        new == [f \in DOMAIN old \cup DOMAIN fields |->
                   IF f \in DOMAIN fields THEN fields[f] ELSE old[f]]
    IN  [d EXCEPT !.hash = [k \in DOMAIN d.hash \cup {key} |->
                               IF k = key THEN new ELSE d.hash[k]]]

\* A DEL that removes nothing
DelNothing(d, key) == d

\* DEL key (an absent key is no error)
Del(d, key) ==
    [d EXCEPT !.hash = [k \in DOMAIN d.hash \ {key} |-> d.hash[k]],
              !.doc = [k \in DOMAIN d.doc \ {key} |-> d.doc[k]]]

\* JSON.SET key $ doc
JsonSet(d, key, doc) ==
    [d EXCEPT !.doc = [k \in DOMAIN d.doc \cup {key} |->
                          IF k = key THEN doc ELSE d.doc[k]]]

\* JSON.GET key $ answers a string only when the document exists
JsonGetOk(d, key) == key \in DOMAIN d.doc

\* JSON.DEL key $ (an absent key is no error)
JsonDel(d, key) == [d EXCEPT !.doc = [k \in DOMAIN d.doc \ {key} |-> d.doc[k]]]

\* ------------------------------------------------------------ key names

\* format!("{}:{}", self.collection_name, vector_id)
VectorKey(c, id) == Join(c, id)

\* format!("metadata:{}", vector_id)
MetadataId(id) == Join(<<"metadata">>, id)

\* format!("{}:empty", self.collection_name)
PlaceholderKey(c) == Join(c, <<"empty">>)

\* format!("metadata:{}:empty", self.collection_name)
PlaceholderMetadataId(c) == Join(<<"metadata">>, Join(c, <<"empty">>))

\* --------------------------------------------------------------- results

Ok(v) == [kind |-> "ok", err |-> "", val |-> v]
Err(e) == [kind |-> "err", err |-> e, val |-> <<>>]
NotFound == [kind |-> "none", err |-> "", val |-> <<>>]
Found(p) == [kind |-> "found", err |-> "", val |-> p]

Ret(d, r) == [db |-> d, res |-> r]

\* The hash fields upsert and create_collection write
HashFields(vector, metadata_id) ==
    [f \in {"vector", "metadata_json_id"} |->
        IF f = "vector" THEN SerializeVector(vector) ELSE metadata_id]

\* ---------------------------------------------------- RedisEngine calls

\* create_collection, once FT.CREATE has answered: the placeholder metadata
\* document, then the placeholder hash
WritePlaceholder(d, c, f) ==
    IF f = "json_set" THEN Ret(d, Err("RedisError"))
    ELSE LET d2 == JsonSet(d, PlaceholderMetadataId(c), EmptyMetadata)
         IN  IF f = "hset" THEN Ret(d2, Err("RedisError"))
             ELSE Ret(HSetMultiple(d2, PlaceholderKey(c),
                                   HashFields(ZeroVector, PlaceholderMetadataId(c))),
                      Ok(<<>>))

\* create_collection, when FT.INFO has answered: nothing is written
CollectionExists(d, c) == Ret(d, Ok(<<>>))

\* The probe read the wrong way round: is_err() for is_ok()
IndexExistsInverted(d, c, f) == ~(f # "ft_info" /\ FtInfoOk(d, c))

\* create_collection's probe: index_exists.is_ok()
IndexExists(d, c, f) == f # "ft_info" /\ FtInfoOk(d, c)

CreateCollection(d, c, f) ==
    IF f = "conn" THEN Ret(d, Err("RedisError"))
    ELSE IF IndexExists(d, c, f) THEN CollectionExists(d, c)
    ELSE IF f = "ft_create" \/ c \in d.index THEN Ret(d, Err("RedisError"))
    ELSE WritePlaceholder(FtCreate(d, c), c, f)

\* delete_collection, once FT.DROPINDEX has answered
DeletePlaceholderMetadata(d, c, f) ==
    IF f = "json_del" THEN Ret(d, Err("RedisError"))
    ELSE Ret(JsonDel(d, PlaceholderMetadataId(c)), Ok(<<>>))

DeleteCollection(d, c, f) ==
    IF f = "conn" THEN Ret(d, Err("RedisError"))
    ELSE IF f = "ft_dropindex" \/ c \notin d.index THEN Ret(d, Err("RedisError"))
    ELSE DeletePlaceholderMetadata(FtDropIndexDD(d, c), c, f)

\* get_vector, once the hash is known to hold both fields: the metadata
\* document is fetched by reference and parsed
ResolveMetadata(d, vector_id, vector, metadata_json_id, f) ==
    IF ~Utf8Ok(metadata_json_id) THEN Err("Other")
    ELSE IF f = "json_get" \/ ~JsonGetOk(d, metadata_json_id) THEN Err("RedisError")
    ELSE IF ~JsonParses(d.doc[metadata_json_id]) THEN Err("SerializationError")
    ELSE Found(PointStruct(vector_id, vector, FromJson(d.doc[metadata_json_id])))

\* A get that takes a hash without its vector or its reference for absent
GetVectorLenient(d, c, vector_id, f) ==
    IF f \in {"conn", "hgetall"} THEN Err("RedisError")
    ELSE LET vector_data == HGetAll(d, VectorKey(c, vector_id))
         IN  IF ~({"vector", "metadata_json_id"} \subseteq DOMAIN vector_data) THEN NotFound
             ELSE ResolveMetadata(d, vector_id, DeserializeVector(vector_data["vector"]),
                                  vector_data["metadata_json_id"], f)

GetVector(d, c, vector_id, f) ==
    IF f \in {"conn", "hgetall"} THEN Err("RedisError")
    ELSE LET vector_data == HGetAll(d, VectorKey(c, vector_id))
         IN  IF DOMAIN vector_data = {} THEN NotFound
             ELSE IF "vector" \notin DOMAIN vector_data THEN Err("Other")
             ELSE IF "metadata_json_id" \notin DOMAIN vector_data THEN Err("Other")
             ELSE ResolveMetadata(d, vector_id, DeserializeVector(vector_data["vector"]),
                                  vector_data["metadata_json_id"], f)

\* add_vector_and_metadata: the fault "create:x" is fault x of the
\* create_collection call it starts with
CreateFault(f) ==
    IF Len(f) = 2 /\ f[1] = "create" THEN f[2] ELSE "none"

OwnFault(f) == IF Len(f) = 1 THEN f[1] ELSE "none"

\* The two writes as one: a failed document write leaves the hash as it was
WriteVectorAndMetadataAtomic(d, c, point, f) ==
    IF f \in {"hset", "json_set"} THEN Ret(d, Err("RedisError"))
    ELSE Ret(JsonSet(HSetMultiple(d, VectorKey(c, point.id),
                                  HashFields(point.vector, MetadataId(point.id))),
                     MetadataId(point.id), ToJson(point.payload)),
             Ok(<<point.id, MetadataId(point.id)>>))

\* The two writes of add_vector_and_metadata: the hash, then the document
WriteVectorThenMetadata(d, c, point, f) ==
    IF f = "hset" THEN Ret(d, Err("RedisError"))
    ELSE LET d1 == HSetMultiple(d, VectorKey(c, point.id),
                                HashFields(point.vector, MetadataId(point.id)))
         IN  IF f = "json_set" THEN Ret(d1, Err("RedisError"))
             ELSE Ret(JsonSet(d1, MetadataId(point.id), ToJson(point.payload)),
                      Ok(<<point.id, MetadataId(point.id)>>))

AddVectorAndMetadata(d, c, point, f) ==
    LET cr == CreateCollection(d, c, CreateFault(f))
    IN  IF cr.res.kind = "err" THEN cr
        ELSE IF OwnFault(f) = "conn" THEN Ret(cr.db, Err("RedisError"))
        ELSE WriteVectorThenMetadata(cr.db, c, point, OwnFault(f))

DeleteVectorAndMetadata(d, c, vector_id, f) ==
    IF f \in {"conn", "del"} THEN Ret(d, Err("RedisError"))
    ELSE LET d1 == Del(d, VectorKey(c, vector_id))
         IN  IF f = "json_del" THEN Ret(d1, Err("RedisError"))
             ELSE Ret(JsonDel(d1, MetadataId(vector_id)), Ok(<<>>))

\* FT.SEARCH c * LIMIT 0 0 read as a count: the documents of the index
CountDocuments(d, c) ==
    Cardinality({k \in DOMAIN d.hash : HasPrefix(k, c \o <<Colon>>)})

GetCollectionInfo(d, c, f) ==
    IF f = "conn" THEN Err("RedisError")
    ELSE LET index_exists == f # "ft_info" /\ FtInfoOk(d, c)
             metadata_exists == f # "json_get" /\ JsonGetOk(d, PlaceholderMetadataId(c))
         IN  IF index_exists /\ f = "ft_search" THEN Err("RedisError")
             ELSE Ok([collection_name |-> c,
                      index_exists    |-> index_exists,
                      metadata_exists |-> metadata_exists,
                      document_count  |-> IF index_exists THEN CountDocuments(d, c) ELSE 0])

\* ------------------------------------------------------------- lib calls

\* The bound collection, whatever the id holds
ActualCollectionBound(vector_id, collection_name) ==
    IF collection_name = None THEN <<"empty">> ELSE collection_name[1]

\* lib::get_vector: an id that holds ':' names its own collection
ActualCollection(vector_id, collection_name) ==
    IF HasColon(vector_id) THEN Split(vector_id)[1]
    ELSE IF collection_name = None THEN <<"empty">> ELSE collection_name[1]

ActualId(vector_id) ==
    IF HasColon(vector_id) THEN Split(vector_id)[2] ELSE vector_id

LibGetVector(d, vector_id, collection_name, f) ==
    GetVector(d, ActualCollection(vector_id, collection_name), ActualId(vector_id), f)

\* ---------------------------------------------------------------- inputs

Colls == {<<"docs">>, <<"logs">>}

\* A bare id, an id that holds ':', and the id whose metadata key is the
\* key of a collection's placeholder document
Ids == {<<"a">>, <<"docs", Colon, "a">>, <<"docs", Colon, "empty">>}

PayA == Payload("hello", Metadata("gs://u", 1, "s", NoExtra))
PayB == Payload("", Metadata("", 0, "", [k \in {"tag"} |-> JStr("x")]))
\* with_extra("uri", ..): an extra field named like a required one
PayDup == Payload("hello", Metadata("gs://u", 1, "s", [k \in {"uri"} |-> JStr("v")]))

Points == {[vector |-> <<F1>>, payload |-> PayA],
           [vector |-> <<F01, F1>>, payload |-> PayB],
           [vector |-> <<>>, payload |-> PayDup]}

\* The ids of lookups: those, and the compound id of the record that is
\* stored in docs under the id docs:a
LibIds == Ids \cup {<<"docs", Colon, "docs", Colon, "a">>}

CreateFaults == {"none", "ft_info", "json_set", "hset"}
DeleteCollectionFaults == {"none", "json_del"}
UpsertFaults == {<<"none">>, <<"hset">>, <<"json_set">>, <<"create", "json_set">>}
DeleteFaults == {"none", "del", "json_del"}
GetFaults == {"none", "json_get"}
InfoFaults == {"none", "ft_search"}

\* ----------------------------------------------------------------- state
\* db is the backend's keyspace.  last is the latest call: its inputs, its
\* result, the keyspace it started from (pre) and a summary of the call
\* before it (after).  ops counts the calls.  stored holds the ids whose
\* hash an upsert wrote before the latest call.  onlyColl says that every
\* write so far was a create_collection or a delete_collection.

NoCall == [op |-> "init", coll |-> <<>>, id |-> <<>>, point |-> <<>>,
           fault |-> "none", res |-> Ok(<<>>), pre |-> EmptyDb,
           after |-> [op |-> "init", coll |-> <<>>, ok |-> TRUE]]

Call(op, c, id, point, f, res) ==
    [op |-> op, coll |-> c, id |-> id, point |-> point, fault |-> f,
     res |-> res, pre |-> db,
     after |-> [op |-> last.op, coll |-> last.coll, ok |-> last.res.kind # "err"]]

Init ==
    /\ db = EmptyDb
    /\ last = NoCall
    /\ ops = 0
    /\ stored = {}
    /\ onlyColl = TRUE
    /\ procs = <<>>

\* add_vector_and_metadata got as far as its hash write
UpsertWroteHash(d, c, f) ==
    /\ CreateCollection(d, c, CreateFault(f)).res.kind = "ok"
    /\ OwnFault(f) \notin {"conn", "hset"}

\* The ids whose hash an upsert has written, the latest call included
StoredNow ==
    IF last.op = "upsert" /\ UpsertWroteHash(last.pre, last.coll, last.fault)
    THEN stored \cup {last.id} ELSE stored

Step == ops < MaxOps /\ ops' = ops + 1 /\ stored' = StoredNow /\ UNCHANGED procs

CreateCollectionCall(c, f) ==
    LET r == CreateCollection(db, c, f)
    IN  /\ db' = r.db
        /\ last' = Call("create_collection", c, <<>>, <<>>, f, r.res)
        /\ UNCHANGED onlyColl

DeleteCollectionCall(c, f) ==
    LET r == DeleteCollection(db, c, f)
    IN  /\ db' = r.db
        /\ last' = Call("delete_collection", c, <<>>, <<>>, f, r.res)
        /\ UNCHANGED onlyColl

UpsertCall(c, id, pt, f) ==
    LET point == PointStruct(id, pt.vector, pt.payload)
        r == AddVectorAndMetadata(db, c, point, f)
    IN  /\ db' = r.db
        /\ last' = Call("upsert", c, id, point, f, r.res)
        /\ onlyColl' = FALSE

DeleteCall(c, id, f) ==
    LET r == DeleteVectorAndMetadata(db, c, id, f)
    IN  /\ db' = r.db
        /\ last' = Call("delete", c, id, <<>>, f, r.res)
        /\ onlyColl' = FALSE

GetCall(c, id, f) ==
    /\ last' = Call("get", c, id, <<>>, f, GetVector(db, c, id, f))
    /\ UNCHANGED <<db, onlyColl>>

LibGetCall(c, id, f) ==
    /\ last' = Call("lib_get", c, id, <<>>, f, LibGetVector(db, id, Some(c), f))
    /\ UNCHANGED <<db, onlyColl>>

InfoCall(c, f) ==
    /\ last' = Call("info", c, <<>>, <<>>, f, GetCollectionInfo(db, c, f))
    /\ UNCHANGED <<db, onlyColl>>

DoCreateCollection == \E c \in Colls, f \in CreateFaults : Step /\ CreateCollectionCall(c, f)

DoDeleteCollection ==
    \E c \in Colls, f \in DeleteCollectionFaults : Step /\ DeleteCollectionCall(c, f)

DoUpsert ==
    \E c \in Colls, id \in Ids, pt \in Points, f \in UpsertFaults :
        Step /\ UpsertCall(c, id, pt, f)

DoDelete == \E c \in Colls, id \in Ids, f \in DeleteFaults : Step /\ DeleteCall(c, id, f)

DoGet == \E c \in Colls, id \in Ids, f \in GetFaults : Step /\ GetCall(c, id, f)

DoLibGet == \E c \in Colls, id \in LibIds, f \in GetFaults : Step /\ LibGetCall(c, id, f)

DoInfo == \E c \in Colls, f \in InfoFaults : Step /\ InfoCall(c, f)

Next ==
    \/ DoCreateCollection
    \/ DoDeleteCollection
    \/ DoUpsert
    \/ DoDelete
    \/ DoGet
    \/ DoLibGet
    \/ DoInfo

\* The store started on an empty backend.
Spec == Init /\ [][Next]_vars

\* ------------------------------------------------- any backend content
\* RedisEngine::new opens a client on a backend that other writers share:
\* the keyspace it finds may hold an index, any hash under docs:a and any
\* document under metadata:a.

AnyHashes ==
    {EmptyHash,
     [f \in {"vector"} |-> SerializeVector(<<F1>>)],
     [f \in {"metadata_json_id"} |-> MetadataId(<<"a">>)],
     [f \in {"id"} |-> <<"a">>],
     HashFields(<<F1>>, MetadataId(<<"a">>)),
     HashFields(<<F1>>, <<BadByte>>)}

\* A document without its source field
NoSourceDoc ==
    [content  |-> JStr("x"),
     metadata |-> << <<"uri", JStr("")>>, <<"chunk_id", JNum(0)>> >>]

NoDoc == [content |-> JStr(""), metadata |-> <<>>]

AnyDocs == {NoDoc, ToJson(PayA), ToJson(PayDup), NoSourceDoc}

AnyDb(ix, h, j) ==
    [index |-> ix,
     hash  |-> [k \in (IF h = EmptyHash THEN {} ELSE {VectorKey(<<"docs">>, <<"a">>)}) |-> h],
     doc   |-> [k \in (IF j = NoDoc THEN {} ELSE {MetadataId(<<"a">>)}) |-> j]]

InitAny ==
    /\ \E ix \in SUBSET {<<"docs">>}, h \in AnyHashes, j \in AnyDocs : db = AnyDb(ix, h, j)
    /\ last = [NoCall EXCEPT !.pre = db]
    /\ ops = 0
    /\ stored = {}
    /\ onlyColl = TRUE
    /\ procs = <<>>

ProbeGet ==
    \E c \in Colls, id \in Ids, f \in GetFaults \cup {"hgetall"} :
        GetCall(c, id, f) /\ UNCHANGED <<ops, stored, procs>>

ProbeLibGet ==
    \E c \in Colls, id \in Ids, f \in GetFaults : LibGetCall(c, id, f) /\ UNCHANGED <<ops, stored, procs>>

ProbeInfo == \E c \in Colls, f \in InfoFaults : InfoCall(c, f) /\ UNCHANGED <<ops, stored, procs>>

NextAny ==
    \/ ProbeGet
    \/ ProbeLibGet
    \/ ProbeInfo

\* The store opened on a backend with content of its own, then read.
SpecAny == InitAny /\ [][NextAny]_vars

\* ---------------------------------------------------------------- claims

\* No extra field of the payload is named like a required field.
ExtraApart(payload) == DOMAIN payload.metadata.extra \cap Named = {}

\* r is a found record that carries point's vector and payload.
Returns(r, point) ==
    /\ r.kind = "found"
    /\ r.val.vector = point.vector
    /\ r.val.payload = point.payload

\* C1 as stated, for every id string: after a successful upsert of
\* (v, meta) under id x, a following get of x on the same collection
\* (RedisEngine::get_vector and lib::get_vector alike) returns a found
\* record with vector v and metadata meta.  Stated here for the metadata
\* whose extra fields are named apart from the required ones.
C1_UpsertGetEveryId ==
    (last.op = "upsert" /\ last.res.kind = "ok" /\ ExtraApart(last.point.payload)) =>
        /\ Returns(GetVector(db, last.coll, last.id, "none"), last.point)
        /\ Returns(LibGetVector(db, last.id, Some(last.coll), "none"), last.point)

\* C1 amended: after a successful upsert of (v, meta) under id x, where no
\* extra field of meta is named uri, chunk_id or source, upsert returned x,
\* RedisEngine::get_vector(x) on the same collection returns a found record
\* with vector v and metadata meta, and so does lib::get_vector when x
\* holds no ':'.
C1_UpsertGetConsistency ==
    (last.op = "upsert" /\ last.res.kind = "ok" /\ ExtraApart(last.point.payload)) =>
        /\ last.res.val[1] = last.id
        /\ Returns(GetVector(db, last.coll, last.id, "none"), last.point)
        /\ ~HasColon(last.id) =>
              Returns(LibGetVector(db, last.id, Some(last.coll), "none"), last.point)

C1_Witness ==
    /\ last.op = "upsert" /\ last.res.kind = "ok"
    /\ ExtraApart(last.point.payload)
    /\ ~HasColon(last.id)
    /\ Len(last.point.vector) = 2
    /\ VectorKey(last.coll, last.id) \in DOMAIN last.pre.hash

\* C2 as stated, for every id string: after a successful delete(x), get(x)
\* (RedisEngine::get_vector and lib::get_vector alike) returns not-found;
\* and delete(x) of an id with no vector key and no metadata document, the
\* backend answering, returns success and changes nothing.  Stated here
\* for the ids that do not end in a placeholder's "empty".
C2_DeleteThenGetEveryId ==
    /\ (last.op = "delete" /\ last.res.kind = "ok" /\ ActualId(last.id) # <<"empty">>) =>
          /\ GetVector(db, last.coll, last.id, "none") = NotFound
          /\ LibGetVector(db, last.id, Some(last.coll), "none") = NotFound
    /\ (/\ last.op = "delete" /\ last.fault = "none"
        /\ VectorKey(last.coll, last.id) \notin DOMAIN last.pre.hash
        /\ MetadataId(last.id) \notin DOMAIN last.pre.doc) =>
          (last.res.kind = "ok" /\ db = last.pre)

\* C2 amended: after a successful delete(x), RedisEngine::get_vector(x) on
\* that collection returns not-found, and so does lib::get_vector when x
\* holds no ':'; delete(x) of an id with no vector key and no metadata
\* document, the backend answering, returns success and changes nothing.
C2_DeleteCompleteness ==
    /\ (last.op = "delete" /\ last.res.kind = "ok") =>
          /\ GetVector(db, last.coll, last.id, "none") = NotFound
          /\ ~HasColon(last.id) =>
                LibGetVector(db, last.id, Some(last.coll), "none") = NotFound
    /\ (/\ last.op = "delete" /\ last.fault = "none"
        /\ VectorKey(last.coll, last.id) \notin DOMAIN last.pre.hash
        /\ MetadataId(last.id) \notin DOMAIN last.pre.doc) =>
          (last.res.kind = "ok" /\ db = last.pre)

C2_Witness ==
    /\ last.op = "delete" /\ last.res.kind = "ok"
    /\ ~HasColon(last.id)
    /\ VectorKey(last.coll, last.id) \in DOMAIN last.pre.hash
    /\ MetadataId(last.id) \in DOMAIN last.pre.doc

\* C3: a create_collection that succeeds right after a successful
\* create_collection of the same collection writes nothing, so index and
\* placeholders are as the first call left them; and after a successful
\* create_collection info() reports index_exists.
C3_CreateIdempotent ==
    (last.op = "create_collection" /\ last.res.kind = "ok") =>
        /\ GetCollectionInfo(db, last.coll, "none").val.index_exists
        /\ (/\ last.after.op = "create_collection"
            /\ last.after.coll = last.coll
            /\ last.after.ok) => db = last.pre

C3_Witness ==
    /\ last.op = "create_collection" /\ last.res.kind = "ok"
    /\ last.after.op = "create_collection" /\ last.after.coll = last.coll
    /\ last.after.ok
    /\ PlaceholderKey(last.coll) \in DOMAIN db.hash
    /\ PlaceholderMetadataId(last.coll) \in DOMAIN db.doc

\* Collection c is fully absent: no index, no placeholder hash, no
\* placeholder metadata document.
FullyAbsent(d, c) ==
    /\ c \notin d.index
    /\ PlaceholderKey(c) \notin DOMAIN d.hash
    /\ PlaceholderMetadataId(c) \notin DOMAIN d.doc

\* Collection c is fully present: all three exist.
FullyPresent(d, c) ==
    /\ c \in d.index
    /\ PlaceholderKey(c) \in DOMAIN d.hash
    /\ PlaceholderMetadataId(c) \in DOMAIN d.doc

\* C4 as stated: once create_collection and delete_collection calls have
\* returned (with success or an error), every collection is fully absent or
\* fully present; and a create_collection that returns success leaves its
\* collection fully present, whatever state it started from.
C4_AbsentOrPresent ==
    onlyColl =>
        /\ \A c \in Colls : FullyAbsent(db, c) \/ FullyPresent(db, c)
        /\ (last.op = "create_collection" /\ last.res.kind = "ok") =>
              FullyPresent(db, last.coll)

\* The latest call was an upsert whose metadata write failed after its
\* hash write had succeeded.
MetadataWriteFailed ==
    /\ last.op = "upsert"
    /\ last.fault = <<"json_set">>
    /\ UpsertWroteHash(last.pre, last.coll, last.fault)

\* C5 as stated: an upsert whose metadata write fails after the hash write
\* returns an error and leaves the hash stored, holding the vector's bytes
\* and the reference metadata:<id>; when no upsert had stored that id
\* before (in any collection), no document exists under that reference.
C5_FailedMetadataWriteDangles ==
    MetadataWriteFailed =>
        /\ last.res.kind = "err"
        /\ VectorKey(last.coll, last.id) \in DOMAIN db.hash
        /\ db.hash[VectorKey(last.coll, last.id)] =
              HashFields(last.point.vector, MetadataId(last.id))
        /\ last.id \notin stored => MetadataId(last.id) \notin DOMAIN db.doc

\* The hash at key holds both fields and its reference names no document.
Dangling(d, key) ==
    /\ key \in DOMAIN d.hash
    /\ {"vector", "metadata_json_id"} \subseteq DOMAIN d.hash[key]
    /\ Utf8Ok(d.hash[key]["metadata_json_id"])
    /\ d.hash[key]["metadata_json_id"] \notin DOMAIN d.doc

\* C6 as stated: get of an id whose hash is a dangling reference returns
\* the error kind of a missing sub-field (VectorStoreError::Other), which
\* is neither a backend error nor not-found.
C6_DanglingIsIntegrityError ==
    \A c \in Colls, id \in Ids :
        Dangling(db, VectorKey(c, id)) => GetVector(db, c, id, "none") = Err("Other")

\* C7: with the backend answering, get returns not-found when the hash at
\* <collection>:<id> is absent, and VectorStoreError::Other when the hash
\* is present without its vector field or without its reference field.
C7_AbsenceIsNotCorruption ==
    (last.op = "get" /\ last.fault = "none") =>
        LET vector_data == HGetAll(db, VectorKey(last.coll, last.id))
        IN  /\ DOMAIN vector_data = {} => last.res = NotFound
            /\ (/\ DOMAIN vector_data # {}
                /\ ~({"vector", "metadata_json_id"} \subseteq DOMAIN vector_data)) =>
                  last.res = Err("Other")

C7_Witness ==
    /\ last.op = "get" /\ last.fault = "none"
    /\ VectorKey(last.coll, last.id) \in DOMAIN db.hash
    /\ DOMAIN db.hash[VectorKey(last.coll, last.id)] = {"vector"}
    /\ last.res = Err("Other")

\* C8 as stated: delete_collection drops the index first; when the
\* placeholder deletion fails after the drop, it still returns success.
C8_CleanupErrorNotPropagated ==
    (/\ last.op = "delete_collection"
     /\ last.fault = "json_del"
     /\ last.coll \in last.pre.index) =>
        /\ last.coll \notin db.index
        /\ last.res.kind = "ok"

\* C9 as stated: delete(id) removes the metadata document even when the
\* deletion of the vector key fails or the vector key is absent, and the
\* absence of either key is no error.
C9_IndependentDeletes ==
    /\ (last.op = "delete" /\ last.fault \in {"none", "del"}) =>
          MetadataId(last.id) \notin DOMAIN db.doc
    /\ (last.op = "delete" /\ last.fault = "none") => last.res.kind = "ok"

\* The keys of the user records: every hash but the placeholders.
RecordKeys(d) == DOMAIN d.hash \ {PlaceholderKey(c) : c \in Colls}

\* C10 as stated: no two distinct vector records, of the same or of
\* different collections, reference the same metadata document.
C10_MetadataNotShared ==
    \A k1, k2 \in RecordKeys(db) :
        (/\ k1 # k2
         /\ "metadata_json_id" \in DOMAIN db.hash[k1]
         /\ "metadata_json_id" \in DOMAIN db.hash[k2]) =>
            db.hash[k1]["metadata_json_id"] # db.hash[k2]["metadata_json_id"]

\* C11 as stated: every record of a collection but its placeholder holds a
\* vector of the collection's declared dimension (DIM of FT.CREATE).
C11_VectorLengthIsDimension ==
    \A k \in RecordKeys(db) :
        "vector" \in DOMAIN db.hash[k] =>
            Len(DeserializeVector(db.hash[k]["vector"])) = Dim

\* ---------------------------------------------------------------- driver
\* RedisStackVectorStoreDriver (src/src/redis_vector_store_driver.rs), bound
\* to one collection.  An f64 that is a score is a number of tenths or NaN.

collection_name == <<"docs">>

\* count.unwrap_or(10)
DefaultCount == 10

Num(n) == [nan |-> FALSE, n |-> n]
NaN == [nan |-> TRUE, n |-> 0]

\* Entry::new
Entry(id, vector, score, meta) ==
    [id |-> id, vector |-> vector, score |-> score, meta |-> meta]

\* serde_json::to_value(&payload): the metadata object is a map, in which a
\* flattened extra entry takes the place of a named field of the same name
ToValue(payload) ==
    LET m == payload.metadata
    IN  [content  |-> JStr(payload.content),
         metadata |-> [k \in Named \cup DOMAIN m.extra |->
                          IF k \in DOMAIN m.extra THEN m.extra[k]
                          ELSE IF k = "uri" THEN JStr(m.uri)
                          ELSE IF k = "chunk_id" THEN JNum(m.chunk_id)
                          ELSE JStr(m.source)]]

\* format!("{:?}", x) of an f64
FloatDebug(x) ==
    CASE x = F0 -> "0.0"
      [] x = F1 -> "1.0"
      [] x = F01 -> "0.1"
      [] OTHER -> "NaN"

\* format!("{:?}", vector): "[a, b]"
RECURSIVE DebugItems(_)
DebugItems(vector) ==
    IF vector = <<>> THEN <<>>
    ELSE IF Len(vector) = 1 THEN <<FloatDebug(vector[1])>>
    ELSE <<FloatDebug(vector[1]), ", ">> \o DebugItems(Tail(vector))

\* get_uuid: the version-5 UUID of the vector's debug text; the text of a
\* UUID holds hexadecimal digits and '-' only
GetUuid(vector) == <<"uuid5", "[">> \o DebugItems(vector) \o <<"]">>

\* upsert_vector: the caller's meta as a map; a value that is no object
\* gives the empty map
MetaMap(meta) ==
    IF meta # None /\ meta[1].t = "object" THEN meta[1].m ELSE NoExtra

\* upsert_vector: the defaults and the namespace tag put into the map
WithDefaults(map, namespace) ==
    LET keys == DOMAIN map \cup {"uri", "chunk_id"}
                \cup (IF namespace = None THEN {} ELSE {"namespace"})
    IN  [k \in keys |->
            IF k = "namespace" /\ namespace # None THEN JStr(namespace[1])
            ELSE IF k \in DOMAIN map THEN map[k]
            ELSE IF k = "uri" THEN JStr("")
            ELSE JNum(0)]

\* .get(k).and_then(|v| v.as_str()).unwrap_or("")
StrField(map, k) == IF k \in DOMAIN map /\ map[k].t = "str" THEN map[k].s ELSE ""

\* .get(k).and_then(|v| v.as_u64()).unwrap_or(0)
U64Field(map, k) ==
    IF k \in DOMAIN map /\ map[k].t = "num" /\ map[k].n >= 0 THEN map[k].n ELSE 0

\* upsert_vector: Metadata::new on the three fields read from the map
MetadataOf(map) ==
    Metadata(StrField(map, "uri"), U64Field(map, "chunk_id"), StrField(map, "source"),
             NoExtra)

\* An id made of the vector and of the namespace
PointIdNamespaced(vector, vector_id, namespace) ==
    IF vector_id = None THEN GetUuid(vector) \o namespace ELSE vector_id[1]

\* upsert_vector: the given id, or get_uuid of the vector
PointId(vector, vector_id, namespace) ==
    IF vector_id = None THEN GetUuid(vector) ELSE vector_id[1]

UpsertVector(d, c, vector, vector_id, namespace, meta, content, f) ==
    LET metadata_map == WithDefaults(MetaMap(meta), namespace)
        payload == Payload(IF content = None THEN "" ELSE content[1],
                           MetadataOf(metadata_map))
        point == PointStruct(PointId(vector, vector_id, namespace), vector, payload)
        r == AddVectorAndMetadata(d, c, point, f)
    IN  IF r.res.kind = "err" THEN r ELSE Ret(r.db, Ok(r.res.val[1]))

\* delete_vector
DeleteVector(d, c, vector_id, f) == DeleteVectorAndMetadata(d, c, vector_id, f)

\* The fault of the lookup of id, when the lookups of the ids in failing fail
LookupFault(id, failing) == IF id \in failing THEN "json_get" ELSE "none"

\* load_entry
LoadEntry(d, c, vector_id, f) ==
    LET r == LibGetVector(d, vector_id, Some(c), f)
    IN  IF r.kind = "found"
        THEN Found(Entry(r.val.id, r.val.vector, Num(0), ToValue(r.val.payload)))
        ELSE r

RECURSIVE AbortingLoad(_, _, _, _)
AbortingLoad(d, c, ids, failing) ==
    IF ids = <<>> THEN Ok(<<>>)
    ELSE LET e == LoadEntry(d, c, Head(ids), LookupFault(Head(ids), failing))
             rest == AbortingLoad(d, c, Tail(ids), failing)
         IN  IF e.kind = "err" THEN e
             ELSE IF rest.kind = "err" THEN rest
             ELSE Ok((IF e.kind = "found" THEN <<e.val>> ELSE <<>>) \o rest.val)

\* A batch load that gives up at the first lookup error
LoadEntriesAborting(d, c, ids, failing) ==
    AbortingLoad(d, c, IF ids = None THEN <<>> ELSE ids[1], failing)

\* load_entries: the loop over the ids
RECURSIVE LoadedEntries(_, _, _, _)
LoadedEntries(d, c, ids, failing) ==
    IF ids = <<>> THEN <<>>
    ELSE LET e == LoadEntry(d, c, Head(ids), LookupFault(Head(ids), failing))
         IN  (IF e.kind = "found" THEN <<e.val>> ELSE <<>>)
             \o LoadedEntries(d, c, Tail(ids), failing)

\* load_entries(namespace, ids): ids is an Option
LoadEntries(d, c, ids, failing) ==
    Ok(LoadedEntries(d, c, IF ids = None THEN <<>> ELSE ids[1], failing))

\* ------------------------------------------------------- driver: query
\* A reply of the backend is a redis::Value: Data (a string or bytes), Int
\* or Bulk (an array of values).

RData(s) == [t |-> "data", s |-> s, items |-> <<>>]
RInt(n) == [t |-> "int", s |-> <<n>>, items |-> <<>>]
RBulk(items) == [t |-> "bulk", s |-> <<>>, items |-> items]

\* redis::Value::Data(bytes) or redis::Value::Status(s)
IsText(v) == v.t \in {"data", "status"}

\* str::parse::<f64>
ParseF64(value) ==
    CASE value = <<"0">> -> [ok |-> TRUE, val |-> Num(0)]
      [] value = <<"0.1">> -> [ok |-> TRUE, val |-> Num(1)]
      [] value = <<"0.5">> -> [ok |-> TRUE, val |-> Num(5)]
      [] value = <<"nan">> -> [ok |-> TRUE, val |-> NaN]
      [] OTHER -> [ok |-> FALSE, val |-> Num(0)]

\* convert_to_float: "nan" and what does not parse are 0.0
ConvertToFloat(value) ==
    IF value = <<"nan">> THEN Num(0)
    ELSE IF ParseF64(value).ok THEN ParseF64(value).val ELSE Num(0)

\* The elements of a set in some order
RECURSIVE SeqOf(_)
SeqOf(S) ==
    IF S = {} THEN <<>>
    ELSE LET x == CHOOSE x \in S : TRUE IN <<x>> \o SeqOf(S \ {x})

\* The hashes under the prefix of the index of c
IndexedKeys(d, c) == {k \in DOMAIN d.hash : HasPrefix(k, c \o <<Colon>>)}

\* FT.SEARCH answers: the index exists and the command does not fail
SearchAnswers(d, c, faults) == "ft_search" \notin faults /\ c \in d.index

\* The score texts of the first and the second document of a reply, in the
\* order SORTBY vector_score gives them; nan is the distance to a zero vector
ScoreLists ==
    {<< <<"0.1">>, <<"0.5">> >>, << <<"0.5">>, <<"nan">> >>, << <<"nan">>, <<"0.1">> >>}

Min(a, b) == IF a <= b THEN a ELSE b

\* The documents a search may find: distinct keys of the index, LIMIT 0 k
Hits(d, c, k) ==
    LET keys == IndexedKeys(d, c)
    IN  {h \in UNION {[1..n -> keys] : n \in 0..Min(Min(k, 2), Cardinality(keys))} :
            \A i, j \in 1..Len(h) : i # j => h[i] # h[j]}

\* RETURN 1 vector_score, or RETURN 2 vector_score vector
ReplyFields(d, key, score, include_vectors) ==
    <<RData(<<"vector_score">>), RData(score)>>
    \o (IF include_vectors /\ "vector" \in DOMAIN d.hash[key]
        THEN <<RData(<<"vector">>), RData(d.hash[key]["vector"])>> ELSE <<>>)

RECURSIVE ReplyPairs(_, _, _, _, _)
ReplyPairs(d, hits, scores, i, include_vectors) ==
    IF i > Len(hits) THEN <<>>
    ELSE <<RData(hits[i]), RBulk(ReplyFields(d, hits[i], scores[i], include_vectors))>>
         \o ReplyPairs(d, hits, scores, i + 1, include_vectors)

\* [total_results, doc_id1, [field1, value1, ..], doc_id2, [..], ..]
SearchReply(d, hits, scores, include_vectors) ==
    <<RInt(Len(hits))>> \o ReplyPairs(d, hits, scores, 1, include_vectors)

\* The replies FT.SEARCH may give: no hash carries a namespace tag, so a
\* search filtered by namespace finds nothing
SearchReplies(d, c, k, include_vectors, namespace) ==
    IF namespace # None THEN {SearchReply(d, <<>>, <<>>, include_vectors)}
    ELSE {SearchReply(d, h, sc, include_vectors) : h \in Hits(d, c, k), sc \in ScoreLists}

\* query: the loop over the (name, value) strides of a field array; fields
\* is indexed from 0 in the source, from 1 here
RECURSIVE ScanFields(_, _, _, _, _)
ScanFields(fields, j, include_vectors, score, vector_data) ==
    IF j + 1 >= Len(fields) THEN [score |-> score, vector_data |-> vector_data]
    ELSE LET name == fields[j + 1]
             value == fields[j + 2]
         IN  IF ~IsText(name)
             THEN ScanFields(fields, j + 2, include_vectors, score, vector_data)
             ELSE IF name.s = <<"vector_score">>
             THEN ScanFields(fields, j + 2, include_vectors,
                             IF IsText(value) THEN ConvertToFloat(value.s) ELSE Num(0),
                             vector_data)
             ELSE IF name.s = <<"vector">> /\ include_vectors
             THEN ScanFields(fields, j + 2, include_vectors, score,
                             IF value.t = "data" THEN DeserializeVector(value.s)
                             ELSE vector_data)
             ELSE ScanFields(fields, j + 2, include_vectors, score, vector_data)

\* query: the id of a document key, "without collection prefix"
IdOfKey(doc_id) == IF Len(Split(doc_id)) > 1 THEN Split(doc_id)[2] ELSE doc_id

\* query: the vector of an entry
EntryVector(include_vectors, vector_data, point) ==
    IF include_vectors /\ vector_data # <<>> THEN vector_data
    ELSE IF include_vectors THEN point.vector
    ELSE <<>>

\* query: the loop over the pairs of the reply; search_results is indexed
\* from 0 in the source, from 1 here
RECURSIVE ParseSearchResults(_, _, _, _, _, _)
ParseSearchResults(d, c, rs, i, include_vectors, failing) ==
    IF i >= Len(rs) \/ i + 1 >= Len(rs) THEN <<>>
    ELSE LET doc == rs[i + 1]
             fv == rs[i + 2]
             rest == ParseSearchResults(d, c, rs, i + 2, include_vectors, failing)
         IN  IF ~IsText(doc) \/ fv.t # "bulk" THEN rest
             ELSE LET id == IdOfKey(doc.s)
                      got == ScanFields(fv.items, 0, include_vectors, Num(0), <<>>)
                      r == LibGetVector(d, id, Some(c), LookupFault(id, failing))
                  IN  IF r.kind # "found" THEN rest
                      ELSE <<Entry(id, EntryVector(include_vectors, got.vector_data, r.val),
                                   got.score, ToValue(r.val.payload))>> \o rest

\* The entries of the reply, or none of them when a lookup found no record
SearchEntriesAllOrNothing(d, c, rs, include_vectors, failing) ==
    IF Len(rs) < 2 THEN <<>>
    ELSE LET es == ParseSearchResults(d, c, rs, 1, include_vectors, failing)
         IN  IF 2 * Len(es) + 1 < Len(rs) THEN <<>> ELSE es

\* The entries of the reply, last document first
SearchEntriesReversed(d, c, rs, include_vectors, failing) ==
    IF Len(rs) < 2 THEN <<>>
    ELSE Reverse(ParseSearchResults(d, c, rs, 1, include_vectors, failing))

\* query, when the search has answered
SearchEntries(d, c, rs, include_vectors, failing) ==
    IF Len(rs) < 2 THEN <<>>
    ELSE ParseSearchResults(d, c, rs, 1, include_vectors, failing)

\* ---------------------------------------------- driver: query, fallback

\* A key matches a MATCH pattern: "p*" is a prefix, other text the key
GlobMatch(k, pattern) ==
    IF pattern # <<>> /\ pattern[Len(pattern)] = "*"
    THEN HasPrefix(k, SubSeq(pattern, 1, Len(pattern) - 1))
    ELSE k = pattern

\* The keys SCAN 0 MATCH pattern COUNT n finds, n at most
ScanKeys(d, pattern, n) ==
    LET found == SeqOf({k \in DOMAIN d.hash \cup DOMAIN d.doc : GlobMatch(k, pattern)})
    IN  SubSeq(found, 1, Min(n, Len(found)))

\* The reply of SCAN: the next cursor and the array of keys
ScanReply(d, pattern, n) ==
    LET keys == ScanKeys(d, pattern, n)
    IN  <<RData(<<"0">>), RBulk([i \in 1..Len(keys) |-> RData(keys[i])])>>

\* query::<Vec<String>>: every element of the reply read as a String, which
\* an array is not
VecStringOf(reply) ==
    IF \A i \in 1..Len(reply) : IsText(reply[i])
    THEN Ok([i \in 1..Len(reply) |-> reply[i].s])
    ELSE Err("RedisError")

\* query::<(String, Vec<String>)>: the keys of the reply
KeysOf(reply) == [i \in 1..Len(reply[2].items) |-> reply[2].items[i].s]

\* query, fallback: the loop over the keys of the second scan
RECURSIVE FallbackLoop(_, _, _, _, _, _, _)
FallbackLoop(d, c, keys, i, max_docs, failing, entries) ==
    IF i > Len(keys) THEN entries
    ELSE LET key_parts == Split(keys[i])
         IN  IF Len(key_parts) <= 1
             THEN FallbackLoop(d, c, keys, i + 1, max_docs, failing, entries)
             ELSE LET id == key_parts[2]
                      e == LoadEntry(d, c, id, LookupFault(id, failing))
                  IN  IF e.kind # "found"
                      THEN FallbackLoop(d, c, keys, i + 1, max_docs, failing, entries)
                      ELSE IF Len(entries) + 1 >= max_docs THEN Append(entries, e.val)
                      ELSE FallbackLoop(d, c, keys, i + 1, max_docs, failing,
                                        Append(entries, e.val))

\* query, fallback: the second scan, for the pattern made of keys[1]
SecondScan(d, c, keys, max_docs, faults, failing) ==
    IF Len(keys) < 2 \/ "scan" \in faults THEN <<>>
    ELSE FallbackLoop(d, c, KeysOf(ScanReply(d, Join(c, keys[2]), max_docs)), 1,
                      max_docs, failing, <<>>)

\* query, when the search has failed
Fallback(d, c, max_docs, faults, failing) ==
    LET key_result == IF "scan" \in faults THEN Err("RedisError")
                      ELSE VecStringOf(ScanReply(d, c \o <<Colon, "*">>, max_docs))
    IN  IF key_result.kind = "err" THEN Ok(<<>>)
        ELSE Ok(SecondScan(d, c, key_result.val, max_docs, faults, failing))

\* query: get_collection, and initialize() when it returned an error
EnsureCollection(d, c, faults) ==
    IF GetCollectionInfo(d, c, IF "info" \in faults THEN "conn" ELSE "none").kind = "err"
    THEN CreateCollection(d, c, "none")
    ELSE Ret(d, Ok(<<>>))

\* query(query, count, include_vectors, namespace, query_vector); rs is the
\* reply of FT.SEARCH, read when the search answers
Query(d, c, count, include_vectors, namespace, query_vector, rs, faults, failing) ==
    LET ensured == EnsureCollection(d, c, faults)
        max_docs == IF count = None THEN DefaultCount ELSE count[1]
    IN  IF ensured.res.kind = "err" THEN ensured
        ELSE IF query_vector = None /\ "embed" \in faults
        THEN Ret(ensured.db, Err("Other"))
        ELSE IF SearchAnswers(ensured.db, c, faults)
        THEN Ret(ensured.db, Ok(SearchEntries(ensured.db, c, rs, include_vectors, failing)))
        ELSE Ret(ensured.db, Fallback(ensured.db, c, max_docs, faults, failing))

\* ---------------------------------------------- driver: search command
\* An argument of a command: a text written in the source, or a value

Lit(s) == [lit |-> TRUE, s |-> s, x |-> <<>>]
Val(x) == [lit |-> FALSE, s |-> "", x |-> x]

\* usize::to_string
Decimal(n) == <<"0", "1", "2", "3", "4", "5", "6", "7", "8", "9", "10", "11">>[n + 1]

\* query: the vector given, or else the embedding of the query text
QueryVector(query_vector) == IF query_vector = None THEN <<F1, F0>> ELSE query_vector[1]

\* format!("({})=>[KNN {} @vector $vec AS vector_score]", filter_expr, k)
KnnQuery(namespace, k) == Val([filter |-> namespace, knn |-> k])

\* query: the arguments of FT.SEARCH, in the order they are given
SearchCommand(c, count, include_vectors, namespace, vector) ==
    LET k == IF count = None THEN DefaultCount ELSE count[1]
    IN  << Lit("FT.SEARCH"), Val(c), KnnQuery(namespace, k),
           Lit("PARAMS"), Lit("2"), Lit("vec"), Val(SerializeVector(vector)),
           Lit("RETURN"), Lit(IF include_vectors THEN "2" ELSE "1"),
           Lit("vector_score"), Lit(IF include_vectors THEN "vector" ELSE ""),
           Lit("SORTBY"), Lit("vector_score"),
           Lit("LIMIT"), Lit("0"), Lit(Decimal(k)) >>

\* -------------------------------------------------------- driver: inputs

V1 == <<F01, F1>>
V2 == <<F1, F0>>

JObject(m) == [t |-> "object", s |-> "", n |-> 0, m |-> m]

\* A meta object with a field of the caller's own and two of the required
MetaTagged ==
    JObject([k \in {"tag", "uri", "chunk_id"} |->
                IF k = "tag" THEN JStr("x")
                ELSE IF k = "uri" THEN JStr("gs://u") ELSE JNum(3)])

\* (namespace, meta, content) as callers give them
MetaArgs ==
    {[namespace |-> None, meta |-> None, content |-> None],
     [namespace |-> Some("ns"), meta |-> Some(MetaTagged), content |-> Some("hello")],
     [namespace |-> None, meta |-> Some(JStr("x")), content |-> None]}

VectorIds == {None, Some(<<"a">>), Some(<<"docs", Colon, "a">>)}

DriverIds == {<<"a">>, <<"docs", Colon, "a">>, <<"docs">>, <<"empty">>, GetUuid(V1)}

IdLists ==
    {None, Some(<< <<"a">>, GetUuid(V1) >>), Some(<< GetUuid(V1), <<"empty">>, <<"a">> >>)}

QueryArgs ==
    {[count |-> None, include_vectors |-> FALSE, namespace |-> None, query_vector |-> Some(V1)],
     [count |-> Some(1), include_vectors |-> TRUE, namespace |-> None, query_vector |-> Some(V1)],
     [count |-> Some(2), include_vectors |-> TRUE, namespace |-> None, query_vector |-> None],
     [count |-> Some(2), include_vectors |-> FALSE, namespace |-> Some("ns"),
      query_vector |-> None]}

QueryFaults == {{}, {"info"}, {"ft_search"}, {"ft_search", "scan"}, {"embed"}}

FailingLookups == {{}, {<<"a">>}}

\* --------------------------------------------------------- driver: state
\* last is the latest call of the driver: its arguments, its result, the
\* keyspace it started from (pre) and, of an upsert_vector before it, the
\* arguments and the result (prev).

NoPrev == [op |-> "none", arg |-> <<>>, res |-> Ok(<<>>)]

NoDriverCall == [op |-> "init", arg |-> <<>>, res |-> Ok(<<>>), pre |-> EmptyDb,
                 prev |-> NoPrev]

DriverCall(op, arg, res) ==
    [op |-> op, arg |-> arg, res |-> res, pre |-> db,
     prev |-> IF last.op = "upsert_vector"
              THEN [op |-> last.op, arg |-> last.arg, res |-> last.res]
              ELSE NoPrev]

InitDriver ==
    /\ db = EmptyDb
    /\ last = NoDriverCall
    /\ ops = 0
    /\ stored = {}
    /\ onlyColl = TRUE
    /\ procs = <<>>

DriverStep == ops < MaxOps /\ ops' = ops + 1 /\ UNCHANGED <<stored, onlyColl, procs>>

DoInitialize ==
    \E f \in {"none", "json_set"} :
        LET r == CreateCollection(db, collection_name, f)
        IN  /\ DriverStep
            /\ db' = r.db
            /\ last' = DriverCall("initialize", [fault |-> f], r.res)

DoUpsertVector ==
    \E vector \in {V1, V2}, vector_id \in VectorIds, m \in MetaArgs,
       f \in {<<"none">>, <<"json_set">>} :
        LET r == UpsertVector(db, collection_name, vector, vector_id, m.namespace,
                              m.meta, m.content, f)
        IN  /\ DriverStep
            /\ db' = r.db
            /\ last' = DriverCall("upsert_vector",
                                  [vector |-> vector, vector_id |-> vector_id,
                                   namespace |-> m.namespace, meta |-> m.meta,
                                   content |-> m.content, fault |-> f], r.res)

DoDeleteVector ==
    \E vector_id \in DriverIds :
        LET r == DeleteVector(db, collection_name, vector_id, "none")
        IN  /\ DriverStep
            /\ db' = r.db
            /\ last' = DriverCall("delete_vector", [vector_id |-> vector_id], r.res)

DoQuery ==
    /\ ops < MaxOps
    /\ \E a \in QueryArgs, faults \in QueryFaults :
       \E failing \in (IF faults = {} THEN FailingLookups ELSE {{}}) :
        LET d1 == EnsureCollection(db, collection_name, faults).db
            k == IF a.count = None THEN DefaultCount ELSE a.count[1]
        IN  \E rs \in IF SearchAnswers(d1, collection_name, faults)
                      THEN SearchReplies(d1, collection_name, k, a.include_vectors,
                                         a.namespace)
                      ELSE {<<>>} :
                LET r == Query(db, collection_name, a.count, a.include_vectors,
                               a.namespace, a.query_vector, rs, faults, failing)
                IN  /\ DriverStep
                    /\ db' = r.db
                    /\ last' = DriverCall("query",
                                          [count |-> a.count,
                                           include_vectors |-> a.include_vectors,
                                           namespace |-> a.namespace,
                                           query_vector |-> a.query_vector,
                                           cmd |-> SearchCommand(collection_name, a.count,
                                                       a.include_vectors, a.namespace,
                                                       QueryVector(a.query_vector)),
                                           rs |-> rs, faults |-> faults,
                                           failing |-> failing], r.res)

DoLoadEntry ==
    \E vector_id \in DriverIds, f \in GetFaults :
        /\ DriverStep
        /\ last' = DriverCall("load_entry", [vector_id |-> vector_id, fault |-> f],
                              LoadEntry(db, collection_name, vector_id, f))
        /\ UNCHANGED db

DoLoadEntries ==
    \E ids \in IdLists, failing \in FailingLookups :
        /\ DriverStep
        /\ last' = DriverCall("load_entries", [ids |-> ids, failing |-> failing],
                              LoadEntries(db, collection_name, ids, failing))
        /\ UNCHANGED db

NextDriver ==
    \/ DoInitialize
    \/ DoUpsertVector
    \/ DoDeleteVector
    \/ DoQuery
    \/ DoLoadEntry
    \/ DoLoadEntries

\* The driver of one collection, started on an empty backend.
SpecDriver == InitDriver /\ [][NextDriver]_vars

\* -------------------------------------------------------- driver: claims

\* C12: an upsert_vector that succeeds returns the explicit id it was given;
\* without one, the record is stored under the returned id, and when the
\* call before it was a successful upsert_vector of the same vector without
\* id (whatever its namespace, metadata and content) it returns the same id
\* and adds no key: the record is overwritten.
C12_DeterministicId ==
    (last.op = "upsert_vector" /\ last.res.kind = "ok") =>
        /\ last.arg.vector_id # None => last.res.val = last.arg.vector_id[1]
        /\ last.arg.vector_id = None =>
              /\ VectorKey(collection_name, last.res.val) \in DOMAIN db.hash
              /\ (/\ last.prev.op = "upsert_vector"
                  /\ last.prev.res.kind = "ok"
                  /\ last.prev.arg.vector_id = None
                  /\ last.prev.arg.vector = last.arg.vector) =>
                    /\ last.res.val = last.prev.res.val
                    /\ DOMAIN db.hash = DOMAIN last.pre.hash

C12_Witness ==
    /\ last.op = "upsert_vector" /\ last.res.kind = "ok"
    /\ last.arg.vector_id = None
    /\ last.prev.op = "upsert_vector" /\ last.prev.res.kind = "ok"
    /\ last.prev.arg.vector_id = None
    /\ last.prev.arg.vector = last.arg.vector
    /\ last.prev.arg.namespace # last.arg.namespace
    /\ last.prev.arg.content # last.arg.content

\* C13 as stated: after a successful upsert_vector, load_entry of the
\* returned id finds metadata that holds every field the caller supplied
\* with its value, uri "" and chunk_id 0 when not supplied, and the
\* namespace tag when a namespace was given.
C13_MetadataMerged ==
    (last.op = "upsert_vector" /\ last.res.kind = "ok" /\ ~HasColon(last.res.val)) =>
        LET e == LoadEntry(db, collection_name, last.res.val, "none")
            merged == WithDefaults(MetaMap(last.arg.meta), last.arg.namespace)
        IN  /\ e.kind = "found"
            /\ \A k \in DOMAIN merged :
                  /\ k \in DOMAIN e.val.meta.metadata
                  /\ e.val.meta.metadata[k] = merged[k]

\* The latest call was a query whose search command answered.
SearchRan ==
    /\ last.op = "query"
    /\ last.res.kind = "ok"
    /\ SearchAnswers(db, collection_name, last.arg.faults)

\* The latest call was a query whose search command failed.
FallbackRan ==
    /\ last.op = "query"
    /\ "embed" \notin last.arg.faults
    /\ ~SearchAnswers(db, collection_name, last.arg.faults)

\* k of the latest query
RequestedCount == IF last.arg.count = None THEN DefaultCount ELSE last.arg.count[1]

\* The documents of a reply: their keys and their score texts
DocCount(rs) == IF Len(rs) < 2 THEN 0 ELSE (Len(rs) - 1) \div 2
DocKey(rs, i) == rs[2 * i].s
DocScore(rs, i) == rs[2 * i + 1].items[2].s

Ascending(entries) ==
    \A i, j \in 1..Len(entries) :
        i < j => /\ ~entries[i].score.nan /\ ~entries[j].score.nan
                 /\ entries[i].score.n <= entries[j].score.n

\* The score of a score text, with nan_score for the text nan
ScoreOfText(text, nan_score) ==
    IF text = <<"nan">> THEN nan_score ELSE ParseF64(text).val

\* Every entry is of a document of the reply, in the order of the reply,
\* and has the score of the score text of its document.
InReplyOrder(entries, rs, nan_score) ==
    \E at \in [1..Len(entries) -> 1..DocCount(rs)] :
        /\ \A i, j \in 1..Len(entries) : i < j => at[i] < at[j]
        /\ \A i \in 1..Len(entries) :
              /\ entries[i].id = IdOfKey(DocKey(rs, at[i]))
              /\ entries[i].score = ScoreOfText(DocScore(rs, at[i]), nan_score)

\* C14 as stated: when the search answers, query returns at most k entries
\* in ascending score order, in the order of the reply's documents, each
\* with the score the reply carried for its document.
C14_ScoreAsCarried ==
    SearchRan =>
        /\ Len(last.res.val) <= RequestedCount
        /\ Ascending(last.res.val)
        /\ InReplyOrder(last.res.val, last.arg.rs, NaN)

\* C14 amended: when the search answers, query returns at most k entries in
\* the order of the reply's documents, each with the score text of its
\* document parsed as a float, nan read as 0.0; they are in ascending score
\* order when no score of the reply is nan.
C14_KnnOrdering ==
    SearchRan =>
        /\ Len(last.res.val) <= RequestedCount
        /\ InReplyOrder(last.res.val, last.arg.rs, Num(0))
        /\ (\A i \in 1..DocCount(last.arg.rs) : DocScore(last.arg.rs, i) # <<"nan">>) =>
              Ascending(last.res.val)

C14_Witness ==
    /\ SearchRan
    /\ Len(last.res.val) = 2
    /\ last.res.val[1].score = Num(1)
    /\ last.res.val[2].score = Num(5)

\* The collection holds a record, not its placeholder, that load_entry
\* resolves.
HoldsResolvable ==
    \E id \in DriverIds \ {<<"empty">>} :
        /\ ~HasColon(id)
        /\ VectorKey(collection_name, id) \in DOMAIN db.hash
        /\ LoadEntry(db, collection_name, id, "none").kind = "found"

\* C15 as stated: when the search command fails, query returns success with
\* at most k entries, all of score 0.0; and when the scan answers and the
\* collection holds resolvable records, the result is not empty.
C15_FallbackDegrades ==
    FallbackRan =>
        /\ last.res.kind = "ok"
        /\ Len(last.res.val) <= RequestedCount
        /\ \A i \in 1..Len(last.res.val) : last.res.val[i].score = Num(0)
        /\ (/\ "scan" \notin last.arg.faults
            /\ last.arg.failing = {}
            /\ HoldsResolvable) => last.res.val # <<>>

\* C16 as stated: when the scan of the fallback fails, after the search
\* command has failed, query returns an error.
C16_FallbackErrorPropagated ==
    (FallbackRan /\ "scan" \in last.arg.faults) => last.res.kind = "err"

\* The keys of the reply's documents, in order
DocKeys(rs) == [i \in 1..DocCount(rs) |-> DocKey(rs, i)]

\* The id of a record: its key without the prefix "<collection>:"
IdUnderPrefix(key) == SubSeq(key, Len(collection_name) + 2, Len(key))

\* The lookup of the record of a key finds it
RecordFound(key) ==
    GetVector(db, collection_name, IdUnderPrefix(key),
              LookupFault(IdUnderPrefix(key), last.arg.failing)).kind = "found"

\* The lookup query makes for a key finds a record
LookupFound(key) ==
    LibGetVector(db, IdOfKey(key), Some(collection_name),
                 LookupFault(IdOfKey(key), last.arg.failing)).kind = "found"

C18_QueryEnsuresCollection ==
    (/\ last.op = "query"
     /\ last.arg.faults = {}
     /\ collection_name \notin last.pre.index) => collection_name \in db.index

\* C19 as stated: info() counts the records of the collection without its
\* placeholder; when the index does not exist the count is 0, also when
\* the count query would fail.
C19_CountExcludesPlaceholder ==
    (last.op = "info" /\ last.fault \in {"none", "ft_search"}) =>
        IF last.coll \in db.index
        THEN last.res.kind = "ok" =>
                last.res.val.document_count =
                    Cardinality({k \in RecordKeys(db) :
                                    HasPrefix(k, last.coll \o <<Colon>>)})
        ELSE last.res.kind = "ok" /\ last.res.val.document_count = 0

\* The lookup of load_entry and load_entries for an id
Lookup(id, f) == LibGetVector(last.pre, id, Some(collection_name), f)

\* The lookup of load_entries finds a record for id
BatchFound(id) == Lookup(id, LookupFault(id, last.arg.failing)).kind = "found"

\* C20: load_entries returns success with one entry of score 0.0 for every
\* id whose lookup finds a record, in the order of the ids, whatever the
\* other lookups return; load_entry returns the record found with score
\* 0.0, nothing for an absent one, and the error of a failed lookup.
C20_LoadEntries ==
    /\ last.op = "load_entries" =>
          LET ids == IF last.arg.ids = None THEN <<>> ELSE last.arg.ids[1]
              kept == SelectSeq(ids, BatchFound)
          IN  /\ last.res.kind = "ok"
              /\ Len(last.res.val) = Len(kept)
              /\ \A i \in 1..Len(kept) :
                    /\ last.res.val[i].id = ActualId(kept[i])
                    /\ last.res.val[i].score = Num(0)
                    /\ last.res.val[i].vector = Lookup(kept[i], "none").val.vector
    /\ last.op = "load_entry" =>
          LET r == Lookup(last.arg.vector_id, last.arg.fault)
          IN  IF r.kind = "found"
              THEN /\ last.res.kind = "found"
                   /\ last.res.val.score = Num(0)
                   /\ last.res.val.vector = r.val.vector
                   /\ last.res.val.meta = ToValue(r.val.payload)
              ELSE last.res = r

C20_Witness ==
    /\ last.op = "load_entries"
    /\ last.arg.failing # {}
    /\ \E id \in last.arg.failing : VectorKey(collection_name, id) \in DOMAIN db.hash
    /\ last.arg.ids # None
    /\ Len(last.arg.ids[1]) = 3
    /\ Len(last.res.val) = 1

\* ------------------------------------------------------- bulk ingestion
\* load_vectors_from_gcs (src/src/gcs.rs).  The object store is the
\* environment of the function: a listing and, per object, the outcome of
\* its download.  The GcsOperations of the repository answers every listing
\* with no object and every download with no byte; both answers are among
\* the inputs.  procs holds the spawned tasks, last the call itself.

\* Objects per listing.
MaxBlobs == 2

\* Vec::new(): the bytes of a download that holds nothing
NoBytes == <<>>

\* The JSON text of a point
PointJson(point) ==
    [id |-> JStr(point.id), vector |-> point.vector, payload |-> ToJson(point.payload)]

\* serde_json::from_slice::<PointStruct>
FromSlice(data) ==
    IF data = NoBytes THEN Err("DeserializationError")
    ELSE IF data.id.t # "str" \/ ~JsonParses(data.payload) THEN Err("DeserializationError")
    ELSE Ok(PointStruct(data.id.s, data.vector, FromJson(data.payload)))

\* An object of the bucket: whether its download answers, and with what
Blob(fetch, data) == [fetch |-> fetch, data |-> data]

Blobs ==
    {Blob("err", NoBytes),
     Blob("ok", NoBytes),
     Blob("ok", PointJson(PointStruct(<<"a">>, <<F1>>, PayA))),
     Blob("ok", PointJson(PointStruct(<<"a">>, <<F01, F1>>, PayB))),
     Blob("ok", PointJson(PointStruct(<<"b">>, <<F1>>, PayA)))}

BlobLists == UNION {[1..n -> Blobs] : n \in 0..MaxBlobs}

\* gcs_ops.get_blob(&blob_name).await
GetBlob(blob) == IF blob.fetch = "ok" THEN Ok(blob.data) ELSE Err("Other")

\* task::spawn(async move { .. }): a task before its first step
Task(blob) == [blob |-> blob, pc |-> "spawned", data |-> NoBytes, point |-> <<>>,
               res |-> Ok(<<>>)]

\* A task that has returned r
Done(t, r) == [t EXCEPT !.pc = "done", !.res = r]

\* join_all waits for one task only
JoinAny(tasks) == \E i \in DOMAIN tasks : tasks[i].pc = "done"

\* join_all(tasks).await: every task has returned
JoinAll(tasks) == \A i \in DOMAIN tasks : tasks[i].pc = "done"

NoLoad == [op |-> "init", phase |-> "init", res |-> Ok(<<>>)]

Load(phase, res) == [op |-> "load", phase |-> phase, res |-> res]

InitGcs ==
    /\ db = EmptyDb
    /\ last = NoLoad
    /\ ops = 0
    /\ stored = {}
    /\ onlyColl = TRUE
    /\ procs = <<>>

GcsStep == UNCHANGED <<ops, stored, onlyColl>>

\* The call up to its last spawn: the collection is created, the objects
\* are listed, one task is spawned per name
LoadStart ==
    /\ last.phase = "init"
    /\ \E f \in {"none", "json_set"}, listing \in {"ok", "err"}, blob_names \in BlobLists :
          LET cr == CreateCollection(db, collection_name, f)
          IN  /\ db' = cr.db
              /\ IF cr.res.kind = "err"
                 THEN last' = Load("returned", cr.res) /\ UNCHANGED procs
                 ELSE IF listing = "err"
                 THEN last' = Load("returned", Err("Other")) /\ UNCHANGED procs
                 ELSE /\ last' = Load("running", Ok(<<>>))
                      /\ procs' = [i \in DOMAIN blob_names |-> Task(blob_names[i])]
    /\ GcsStep

\* A task downloads its object
TaskFetch ==
    /\ last.phase = "running"
    /\ \E i \in DOMAIN procs :
          /\ procs[i].pc = "spawned"
          /\ LET r == GetBlob(procs[i].blob)
             IN  procs' = [procs EXCEPT ![i] =
                              IF r.kind = "err" THEN Done(@, r)
                              ELSE [@ EXCEPT !.pc = "fetched", !.data = r.val]]
    /\ UNCHANGED <<db, last>>
    /\ GcsStep

\* A task parses what it downloaded
TaskParse ==
    /\ last.phase = "running"
    /\ \E i \in DOMAIN procs :
          /\ procs[i].pc = "fetched"
          /\ LET r == FromSlice(procs[i].data)
             IN  procs' = [procs EXCEPT ![i] =
                              IF r.kind = "err" THEN Done(@, r)
                              ELSE [@ EXCEPT !.pc = "parsed", !.point = r.val]]
    /\ UNCHANGED <<db, last>>
    /\ GcsStep

\* A task takes the engine's lock and writes its point; the lock is held
\* until add_vector_and_metadata has returned
TaskWrite ==
    /\ last.phase = "running"
    /\ \E i \in DOMAIN procs, f \in UpsertFaults :
          /\ procs[i].pc = "parsed"
          /\ LET r == AddVectorAndMetadata(db, collection_name, procs[i].point, f)
             IN  /\ db' = r.db
                 /\ procs' = [procs EXCEPT ![i] = Done(@, r.res)]
    /\ UNCHANGED last
    /\ GcsStep

\* The results are printed and the call returns Ok(())
LoadJoin ==
    /\ last.phase = "running"
    /\ JoinAll(procs)
    /\ last' = Load("returned", Ok(<<>>))
    /\ UNCHANGED <<db, procs>>
    /\ GcsStep

NextGcs ==
    \/ LoadStart
    \/ TaskFetch
    \/ TaskParse
    \/ TaskWrite
    \/ LoadJoin

\* One call of load_vectors_from_gcs on an empty backend.
SpecGcs == InitGcs /\ [][NextGcs]_vars

\* The call, with every task and the join scheduled as the runtime does
FairGcs == SpecGcs /\ WF_vars(NextGcs)

\* The task's object was downloaded, parsed and written without a failure
Succeeded(t) == t.pc = "done" /\ t.res.kind = "ok"

\* The record of the task's object is in the collection
Holds(d, t) ==
    GetVector(d, collection_name, t.point.id, "none")
        = Found(PointStruct(t.point.id, t.point.vector, t.point.payload))

\* No other listed object carries the id of task i's object
OwnId(i) ==
    \A j \in DOMAIN procs \ {i} :
        \/ procs[j].blob.data = NoBytes
        \/ procs[j].blob.data.id.s # procs[i].point.id

\* What a task returns depends on its own object alone: a failed download
\* or parse is its own, and every object that parses is written
OwnOutcome(t) ==
    t.pc = "done" =>
        /\ t.blob.fetch = "err" => t.res = Err("Other")
        /\ t.blob.fetch = "ok" /\ FromSlice(t.blob.data).kind = "err"
              => t.res = Err("DeserializationError")
        /\ t.blob.fetch = "ok" /\ FromSlice(t.blob.data).kind = "ok"
              => t.point = FromSlice(t.blob.data).val
                 /\ t.res.err \in {"", "RedisError"}

ReturnedAfterAll ==
    /\ \A i \in DOMAIN procs : OwnOutcome(procs[i])
    /\ last.phase = "returned" /\ procs # <<>> =>
          /\ \A i \in DOMAIN procs : procs[i].pc = "done"
          /\ last.res = Ok(<<>>)
          /\ \A i \in DOMAIN procs :
                Succeeded(procs[i]) /\ OwnId(i) => Holds(db, procs[i])

MaxCallers == 2

\* A caller before its first command: both calls start with FT.INFO
Caller(op, c, point) ==
    [op |-> op, coll |-> c, point |-> point, pc |-> "ft_info", res |-> Ok(<<>>)]

CallerInputs ==
    {Caller("create_collection", <<"docs">>, <<>>),
     Caller("upsert", <<"docs">>, PointStruct(<<"a">>, <<F1>>, PayA)),
     Caller("upsert", <<"docs">>, PointStruct(<<"a">>, <<F01, F1>>, PayB))}

\* The caller has returned r
Returned(p, r) == [p EXCEPT !.pc = "done", !.res = r]

\* create_collection has returned Ok: the call itself returns, an upsert
\* goes on to its own writes
Created(p) ==
    IF p.op = "create_collection" THEN Returned(p, Ok(<<>>)) ELSE [p EXCEPT !.pc = "hset"]

InitConc ==
    /\ db \in {EmptyDb, CreateCollection(EmptyDb, <<"docs">>, "none").db}
    /\ last = NoCall
    /\ ops = 0
    /\ stored = {}
    /\ onlyColl = TRUE
    /\ procs \in [1..MaxCallers -> CallerInputs]

ConcStep == UNCHANGED <<last, ops, stored, onlyColl>>

\* FT.INFO: the index exists, or it is to be created
SendFtInfo ==
    /\ \E i \in DOMAIN procs :
          /\ procs[i].pc = "ft_info"
          /\ procs' = [procs EXCEPT ![i] =
                          IF FtInfoOk(db, @.coll) THEN Created(@)
                          ELSE [@ EXCEPT !.pc = "ft_create"]]
    /\ UNCHANGED db
    /\ ConcStep

\* FT.CREATE: an error when the index exists by now
SendFtCreate ==
    /\ \E i \in DOMAIN procs :
          /\ procs[i].pc = "ft_create"
          /\ IF procs[i].coll \in db.index
             THEN /\ procs' = [procs EXCEPT ![i] = Returned(@, Err("RedisError"))]
                  /\ UNCHANGED db
             ELSE /\ procs' = [procs EXCEPT ![i].pc = "json_set_empty"]
                  /\ db' = FtCreate(db, procs[i].coll)
    /\ ConcStep

\* JSON.SET of the placeholder metadata document
SendJsonSetEmpty ==
    /\ \E i \in DOMAIN procs :
          /\ procs[i].pc = "json_set_empty"
          /\ procs' = [procs EXCEPT ![i].pc = "hset_empty"]
          /\ db' = JsonSet(db, PlaceholderMetadataId(procs[i].coll), EmptyMetadata)
    /\ ConcStep

\* HSET of the placeholder record
SendHSetEmpty ==
    /\ \E i \in DOMAIN procs :
          /\ procs[i].pc = "hset_empty"
          /\ procs' = [procs EXCEPT ![i] = Created(@)]
          /\ db' = HSetMultiple(db, PlaceholderKey(procs[i].coll),
                                HashFields(ZeroVector, PlaceholderMetadataId(procs[i].coll)))
    /\ ConcStep

\* HSET of the record's hash
SendHSet ==
    /\ \E i \in DOMAIN procs :
          /\ procs[i].pc = "hset"
          /\ procs' = [procs EXCEPT ![i].pc = "json_set"]
          /\ db' = HSetMultiple(db, VectorKey(procs[i].coll, procs[i].point.id),
                                HashFields(procs[i].point.vector,
                                           MetadataId(procs[i].point.id)))
    /\ ConcStep

\* JSON.SET of the record's metadata document
SendJsonSet ==
    /\ \E i \in DOMAIN procs :
          /\ procs[i].pc = "json_set"
          /\ procs' = [procs EXCEPT ![i] =
                          Returned(@, Ok(<<@.point.id, MetadataId(@.point.id)>>))]
          /\ db' = JsonSet(db, MetadataId(procs[i].point.id), ToJson(procs[i].point.payload))
    /\ ConcStep

NextConc ==
    \/ SendFtInfo
    \/ SendFtCreate
    \/ SendJsonSetEmpty
    \/ SendHSetEmpty
    \/ SendHSet
    \/ SendJsonSet

\* Concurrent callers on a backend that holds the collection or nothing.
SpecConc == InitConc /\ [][NextConc]_vars

AllReturned == \A i \in DOMAIN procs : procs[i].pc = "done"

\* Callers i and j upserted the same id with different vectors and metadata
SameIdUpserts(i, j) ==
    /\ i # j
    /\ procs[i].op = "upsert" /\ procs[j].op = "upsert"
    /\ procs[i].res.kind = "ok" /\ procs[j].res.kind = "ok"
    /\ procs[i].coll = procs[j].coll /\ procs[i].point.id = procs[j].point.id
    /\ procs[i].point.vector # procs[j].point.vector
    /\ procs[i].point.payload # procs[j].point.payload

\* C22 as stated: after two concurrent upserts of one id with different
\* (vector, metadata) pairs have returned, get returns the vector and the
\* metadata of the same one of the two calls.
C22_NoMixedRecord ==
    AllReturned =>
        \A i, j \in DOMAIN procs :
            SameIdUpserts(i, j) =>
                \E k \in DOMAIN procs :
                    /\ procs[k].op = "upsert"
                    /\ GetVector(db, procs[i].coll, procs[i].point.id, "none")
                          = Found(procs[k].point)

\* C30 as stated: two create_collection calls that run concurrently on an
\* absent collection both return success, and the collection is fully
\* present when both have returned.
C30_ConcurrentCreateIdempotent ==
    AllReturned /\ (\A i \in DOMAIN procs : procs[i].op = "create_collection") =>
        /\ \A i \in DOMAIN procs : procs[i].res.kind = "ok"
        /\ \A i \in DOMAIN procs : FullyPresent(db, procs[i].coll)

\* C30, the part that holds: when every concurrent create_collection has
\* returned, the collection is fully present, whoever created it.
C30_FinalStatePresent ==
    AllReturned /\ (\A i \in DOMAIN procs : procs[i].op = "create_collection") =>
        \A i \in DOMAIN procs : FullyPresent(db, procs[i].coll)

\* -------------------------------------------------------- lookup by id

\* Two results report the same record: the same outcome and, when a record
\* was found, the same vector and payload
SameRecord(r1, r2) ==
    /\ r1.kind = r2.kind
    /\ r1.err = r2.err
    /\ r1.kind = "found" => r1.val.vector = r2.val.vector /\ r1.val.payload = r2.val.payload

\* The ways to read id as c:i
Compounds(id) ==
    {[c |-> SubSeq(id, 1, n - 1), i |-> SubSeq(id, n + 1, Len(id))] :
        n \in {n \in 1..Len(id) : id[n] = Colon}}

MaxLen == 3

\* -1.0, and a quiet NaN
FNeg == <<191, 240, 0, 0, 0, 0, 0, 0>>
FNaN == <<127, 248, 0, 0, 0, 0, 0, 0>>

FiniteFloats == {F0, F1, F01, FNeg}

SeqsUpTo(S, n) == UNION {[1..k -> S] : k \in 0..n}

Vectors == SeqsUpTo(FiniteFloats, MaxLen)

RECURSIVE Flatten(_)
Flatten(ss) == IF ss = <<>> THEN <<>> ELSE Head(ss) \o Flatten(Tail(ss))

\* The bytes that follow the last complete group: fewer than 8
Tails == {SubSeq(<<1, 2, 3, 4, 5, 6, 7>>, 1, n) : n \in 0..(FloatBytes - 1)}

\* Byte buffers: complete groups, then a tail
Buffers ==
    {Flatten(gs) \o t : gs \in SeqsUpTo({F0, F1, WriteF64(F01), FNaN}, MaxLen - 1), t \in Tails}

CodecInput(vector, bytes) ==
    [op |-> "init", vector |-> vector, bytes |-> bytes, out |-> <<>>]

InitCodec ==
    /\ db = EmptyDb
    /\ last \in {CodecInput(v, <<>>) : v \in Vectors} \cup {CodecInput(<<>>, b) : b \in Buffers}
    /\ ops = 0
    /\ stored = {}
    /\ onlyColl = TRUE
    /\ procs = <<>>

CodecStep == last.op = "init" /\ UNCHANGED <<db, ops, stored, onlyColl, procs>>

\* deserialize_vector(&serialize_vector(&vector))
DoRoundTrip ==
    /\ CodecStep
    /\ last' = [last EXCEPT !.op = "round_trip",
                            !.bytes = SerializeVector(last.vector),
                            !.out = DeserializeVector(SerializeVector(last.vector))]

\* serialize_vector(&vector)
DoSerialize ==
    /\ CodecStep
    /\ last' = [last EXCEPT !.op = "serialize", !.out = SerializeVector(last.vector)]

\* deserialize_vector(&bytes)
DoDeserialize ==
    /\ CodecStep
    /\ last' = [last EXCEPT !.op = "deserialize", !.out = DeserializeVector(last.bytes)]

NextCodec ==
    \/ DoRoundTrip
    \/ DoSerialize
    \/ DoDeserialize

\* The codec applied to one vector or one byte buffer.
SpecCodec == InitCodec /\ [][NextCodec]_vars

\* C24: for every vector of finite floats, the empty one included,
\* deserialize_vector(serialize_vector(v)) is v and serialize_vector(v) has
\* 8 * len(v) bytes.
C24_RoundTrip ==
    /\ last.op = "round_trip" =>
          /\ last.out = last.vector
          /\ Len(last.bytes) = 8 * Len(last.vector)
    /\ last.op = "serialize" => Len(last.out) = 8 * Len(last.vector)

\* A vector of two different floats went through the codec
C24_Witness ==
    /\ last.op = "round_trip"
    /\ Len(last.vector) >= 2
    /\ last.vector[1] # last.vector[2]
    /\ last.out = last.vector

\* The float of the i-th complete group of a buffer: its 8 bytes, the last
\* one most significant
GroupFloat(bytes, i) == [j \in 1..8 |-> bytes[8 * i + 1 - j]]

\* C25: for every byte buffer b, deserialize_vector(b) returns a vector of
\* floor(len(b) / 8) floats, the i-th one decoded from the i-th complete
\* 8-byte group; trailing bytes short of a group are dropped.
C25_Truncation ==
    last.op = "deserialize" =>
        /\ Len(last.out) = Len(last.bytes) \div 8
        /\ \A i \in 1..Len(last.out) : last.out[i] = GroupFloat(last.bytes, i)

\* A buffer of one group and some bytes more was decoded to one float
C25_Witness ==
    /\ last.op = "deserialize"
    /\ Len(last.bytes) > 8
    /\ Len(last.bytes) % 8 # 0
    /\ Len(last.out) = 1
    /\ last.out[1] = F01

\* ----------------------------------------------------- search command

\* The position of the argument with text s in a command
ArgAt(cmd, s) == CHOOSE i \in 1..Len(cmd) : cmd[i].lit /\ cmd[i].s = s

\* The field names given between the count after RETURN and SORTBY
ReturnFields(cmd) ==
    [i \in 1..(ArgAt(cmd, "SORTBY") - ArgAt(cmd, "RETURN") - 2) |->
        cmd[ArgAt(cmd, "RETURN") + 1 + i].s]

\* The latest call was a query that built its search command
CommandBuilt == last.op = "query" /\ last.res.kind = "ok"

\* C26 as stated: for both values of include_vectors the count declared
\* after RETURN is the number of field names before SORTBY (the score field,
\* and the vector field when include_vectors is true), and the window asks
\* for k results.
C26_CommandWellFormed ==
    CommandBuilt =>
        LET cmd == last.arg.cmd
        IN  /\ cmd[ArgAt(cmd, "RETURN") + 1].s = Decimal(Len(ReturnFields(cmd)))
            /\ ReturnFields(cmd) = IF last.arg.include_vectors
                                   THEN <<"vector_score", "vector">>
                                   ELSE <<"vector_score">>
            /\ cmd[ArgAt(cmd, "LIMIT") + 1].s = "0"
            /\ cmd[ArgAt(cmd, "LIMIT") + 2].s = Decimal(RequestedCount)

\* C26, the part that holds: with include_vectors true the declared count
\* is the number of fields given, and the window always asks for k results.
C26_WellFormedWithVectors ==
    CommandBuilt =>
        LET cmd == last.arg.cmd
        IN  /\ last.arg.include_vectors =>
                  /\ cmd[ArgAt(cmd, "RETURN") + 1].s = Decimal(Len(ReturnFields(cmd)))
                  /\ ReturnFields(cmd) = <<"vector_score", "vector">>
            /\ cmd[ArgAt(cmd, "LIMIT") + 1].s = "0"
            /\ cmd[ArgAt(cmd, "LIMIT") + 2].s = Decimal(RequestedCount)

\* ------------------------------------------------------- ids of entries

\* C27 as stated: for every document key <collection>:<id> of the search
\* reply, the id query extracts is <id>, the key without the collection
\* prefix, whatever id upsert stored the record under.
C27_IdIsKeyWithoutPrefix ==
    SearchRan =>
        \A i \in 1..DocCount(last.arg.rs) :
            IdOfKey(DocKey(last.arg.rs, i)) = IdUnderPrefix(DocKey(last.arg.rs, i))

\* C27, the part that holds: the id extracted from the key of a record whose
\* id holds no ':' is that id.
C27_IdWithoutColon ==
    SearchRan =>
        \A i \in 1..DocCount(last.arg.rs) :
            ~HasColon(IdUnderPrefix(DocKey(last.arg.rs, i))) =>
                IdOfKey(DocKey(last.arg.rs, i)) = IdUnderPrefix(DocKey(last.arg.rs, i))

\* ---------------------------------------------------------- placeholder

\* Key <collection>:empty holds what create_collection wrote there
PlaceholderStored(d, c) ==
    /\ PlaceholderKey(c) \in DOMAIN d.hash
    /\ d.hash[PlaceholderKey(c)] = HashFields(ZeroVector, PlaceholderMetadataId(c))

\* C28 as stated: no entry that query returns, on the search path or on the
\* fallback path, is the placeholder record of the collection.
C28_PlaceholderNotReturned ==
    last.op = "query" /\ last.res.kind = "ok" /\ PlaceholderStored(db, collection_name) =>
        \A i \in 1..Len(last.res.val) : last.res.val[i].id # <<"empty">>

\* ------------------------------------------------------- torn upsert

\* What get reported for the id of the latest call before that call, and
\* what it reports after it
GetBefore == GetVector(last.pre, last.coll, last.id, "none")
GetAfter == GetVector(db, last.coll, last.id, "none")

\* Before the latest call the id was stored: its hash and its metadata
\* document were there
StoredBefore ==
    /\ VectorKey(last.coll, last.id) \in DOMAIN last.pre.hash
    /\ MetadataId(last.id) \in DOMAIN last.pre.doc

====
